---- MODULE Spec2Model ----
(***************************************************************************)
(* A model of the use-case spreadsheet converters of excel-to-docx:        *)
(*   - excel_to_docx_table.py : the hierarchy pipeline (sequence           *)
(*     classifier, read_excel's hierarchy builder);                        *)
(*   - excel_to_docx.py, app.py : the two flat pipelines (forward fill,    *)
(*     groupby on (sequence, name), joined transaction lines).             *)
(*                                                                         *)
(* Text is modelled as a sequence of one-character strings, so that        *)
(* strip, split, isdigit and the regular expressions of the source are     *)
(* computed character by character.  A spreadsheet cell is a record        *)
(*    [t |-> "nan" | "num" | "str", s |-> the text of Python's str(cell)]  *)
(* "nan" is an empty cell as pandas holds it (float NaN, str(NaN) is       *)
(* "nan"), "num" a numeric cell (s is its repr: 1.0, 1.5, 2), "str" a text *)
(* cell.                                                                   *)
(***************************************************************************)
EXTENDS Integers, Sequences, FiniteSets, TLC

\* ------------------------------------------------------------- bounds
\* longest free-form text of the classifier's input set
MaxStrLen == 3
\* largest integer written as plain decimal text in the classifier's input set
MaxDecimal == 999

\* ------------------------------------------------------------ characters
Upper == {"A","B","C","D","E","F","G","H","I","J","K","L","M",
          "N","O","P","Q","R","S","T","U","V","W","X","Y","Z"}
LowerSeq == <<"a","b","c","d","e","f","g","h","i","j","k","l","m",
              "n","o","p","q","r","s","t","u","v","w","x","y","z">>
UpperSeq == <<"A","B","C","D","E","F","G","H","I","J","K","L","M",
              "N","O","P","Q","R","S","T","U","V","W","X","Y","Z">>
DigitSeq == <<"0","1","2","3","4","5","6","7","8","9">>
Digit == {DigitSeq[k] : k \in 1..10}
Space == {" "}
\* the two optional suffix characters of the character class [\.\)]
Suffix == {".", ")"}

\* Python's None where a text is expected (a code that is None)
None == <<"None">>

\* str.upper() on one character
UpperChar(c) ==
    IF \E k \in 1..26 : LowerSeq[k] = c
    THEN UpperSeq[CHOOSE k \in 1..26 : LowerSeq[k] = c]
    ELSE c

\* str.upper()
UpperText(s) == [k \in 1..Len(s) |-> UpperChar(s[k])]

\* str.lower() on one character
LowerChar(c) ==
    IF \E k \in 1..26 : UpperSeq[k] = c
    THEN LowerSeq[CHOOSE k \in 1..26 : UpperSeq[k] = c]
    ELSE c

\* str.lower()
LowerText(s) == [k \in 1..Len(s) |-> LowerChar(s[k])]

\* str.strip(): leading and trailing whitespace removed
RECURSIVE LStrip(_)
LStrip(s) == IF s # <<>> /\ Head(s) \in Space THEN LStrip(Tail(s)) ELSE s

RECURSIVE RStrip(_)
RStrip(s) ==
    IF s # <<>> /\ s[Len(s)] \in Space THEN RStrip(SubSeq(s, 1, Len(s) - 1)) ELSE s

Strip(s) == RStrip(LStrip(s))

\* str.isdigit(): non-empty and every character a digit
IsDigitText(s) == s # <<>> /\ \A k \in 1..Len(s) : s[k] \in Digit

\* name.split()[0]: the first whitespace-delimited token (name is non-empty
\* after strip, so the token exists)
RECURSIVE TakeToken(_)
TakeToken(s) ==
    IF s = <<>> \/ Head(s) \in Space THEN <<>> ELSE <<Head(s)>> \o TakeToken(Tail(s))

FirstToken(s) == TakeToken(LStrip(s))

\* ------------------------------------------------------------------ cells
NaN == [t |-> "nan", s |-> <<"n","a","n">>]
Num(repr) == [t |-> "num", s |-> repr]
Str(text) == [t |-> "str", s |-> text]

\* position of the decimal point in a number's repr, 0 when it has none (an int)
PointAt(s) == IF \E k \in 1..Len(s) : s[k] = "." THEN CHOOSE k \in 1..Len(s) : s[k] = "." ELSE 0

\* float(value).is_integer() read off the repr: no fraction digit other than 0
NumIsInteger(s) ==
    PointAt(s) = 0 \/ \A k \in (PointAt(s) + 1)..Len(s) : s[k] = "0"

\* str(int(value)) read off the repr: the digits before the decimal point
NumIntText(s) == IF PointAt(s) = 0 THEN s ELSE SubSeq(s, 1, PointAt(s) - 1)

\* _normalize_stt: an empty cell is "", an integral number loses its ".0",
\* every other value is str(value).strip()
_normalize_stt(value) ==
    IF value.t = "nan" THEN <<>>
    ELSE IF value.t = "num"
         THEN IF NumIsInteger(value.s) THEN NumIntText(value.s) ELSE Strip(value.s)
         ELSE Strip(value.s)

\* ------------------------------------------------------------- classifier
\* the result pair (matched, code) of the _is_level functions
Match(code) == [ok |-> TRUE, code |-> code]
NoMatch == [ok |-> FALSE, code |-> None]

\* re.match(r"^([A-Z])[\.\)]?$", stt)
_is_level1(stt) ==
    IF /\ Len(stt) \in {1, 2}
       /\ stt[1] \in Upper
       /\ (Len(stt) = 2 => stt[2] \in Suffix)
    THEN Match(<<stt[1]>>)
    ELSE NoMatch

\* the alternatives of the roman-numeral pattern, in the order of the pattern
RomanNumerals ==
    << <<"I">>, <<"I","I">>, <<"I","I","I">>, <<"I","V">>, <<"V">>,
       <<"V","I">>, <<"V","I","I">>, <<"V","I","I","I">>, <<"I","X">>, <<"X">>,
       <<"X","I">>, <<"X","I","I">>, <<"X","I","I","I">>, <<"X","I","V">>, <<"X","V">>,
       <<"X","V","I">>, <<"X","V","I","I">>, <<"X","V","I","I","I">>, <<"X","I","X">>,
       <<"X","X">> >>

\* whether stt is alternative k of the pattern, compared ignoring case, followed
\* by at most one suffix character and the end of the text
RomanMatchesAt(stt, k) ==
    LET alt == RomanNumerals[k]
        n == Len(alt)
    IN /\ Len(stt) \in {n, n + 1}
       /\ UpperText(SubSeq(stt, 1, n)) = alt
       /\ (Len(stt) = n + 1 => stt[n + 1] \in Suffix)

\* re.match(r"^(I|II|...|XX)[\.\)]?$", stt, re.IGNORECASE); code is group(1).upper()
_is_level2(stt) ==
    IF \E k \in 1..Len(RomanNumerals) : RomanMatchesAt(stt, k)
    THEN LET k == CHOOSE j \in 1..Len(RomanNumerals) : RomanMatchesAt(stt, j)
         IN Match(UpperText(SubSeq(stt, 1, Len(RomanNumerals[k]))))
    ELSE NoMatch

\* stt.isdigit(), else re.match(r"^(\d+)[\.\)]?$", stt)
_is_level3(stt) ==
    IF IsDigitText(stt) THEN Match(stt)
    ELSE IF /\ Len(stt) >= 2
            /\ IsDigitText(SubSeq(stt, 1, Len(stt) - 1))
            /\ stt[Len(stt)] \in Suffix
         THEN Match(SubSeq(stt, 1, Len(stt) - 1))
         ELSE NoMatch

\* the tag of a sequence-cell text
Tag(level, code) == [level |-> level, code |-> code]
NoTag == Tag("None", None)

\* read_excel's classification order with Level2 tried before Level1
ClassifyLevel2First(stt) ==
    IF stt # <<>> /\ _is_level2(stt).ok THEN Tag("Level2", _is_level2(stt).code)
    ELSE IF stt # <<>> /\ _is_level1(stt).ok THEN Tag("Level1", _is_level1(stt).code)
    ELSE IF stt # <<>> /\ _is_level3(stt).ok THEN Tag("Level3", _is_level3(stt).code)
    ELSE NoTag

\* read_excel's classification of the normalised sequence text: Level1 is
\* tried first, then Level2, then Level3, each only when the text is non-empty
Classify(stt) ==
    IF stt # <<>> /\ _is_level1(stt).ok THEN Tag("Level1", _is_level1(stt).code)
    ELSE IF stt # <<>> /\ _is_level2(stt).ok THEN Tag("Level2", _is_level2(stt).code)
    ELSE IF stt # <<>> /\ _is_level3(stt).ok THEN Tag("Level3", _is_level3(stt).code)
    ELSE NoTag

\* ------------------------------------------------- classifier's input set
Alphabet == {"A", "I", "V", "X", "i", "x", "b", "1", "0", "7", ".", ")", " ", "#"}

TextsUpTo(n) == UNION {[1..k -> Alphabet] : k \in 0..n}

\* an integer n >= 0 written as plain decimal text
RECURSIVE DecimalText(_)
DecimalText(n) ==
    IF n < 10 THEN <<DigitSeq[n + 1]>>
    ELSE DecimalText(n \div 10) \o <<DigitSeq[(n % 10) + 1]>>

\* the roman numerals I..XX in upper case and in lower case, each bare and with
\* either suffix
RomanTexts ==
    UNION {{r, r \o <<".">>, r \o <<")">>, LowerText(r), LowerText(r) \o <<".">>} :
           r \in {RomanNumerals[k] : k \in 1..Len(RomanNumerals)}}

SttCells ==
    {Str(s) : s \in TextsUpTo(MaxStrLen) \cup RomanTexts
                    \cup {DecimalText(n) : n \in 1..MaxDecimal}}
    \cup {NaN, Num(<<"1">>), Num(<<"1",".","0">>), Num(<<"1",".","5">>),
          Num(<<"2","0",".","0">>), Str(<<"1",".","0">>), Str(<<"1",".","5">>),
          Str(<<" ","1","0"," ">>)}

\* ------------------------------------------------------------ the sheet
\* The data rows of the sheet (raw_df below the header row), one record of six
\* cells per row.  The header row carries the six labels that generate_word
\* writes, so every column that survives dropna is found by its exact label.
Fields == {"stt", "name", "actor", "trans", "bmt", "complexity"}

\* bound: the number of data rows of a sheet
MaxRows == 4

Row(stt, name, actor, trans, bmt, complexity) ==
    [stt |-> stt, name |-> name, actor |-> actor, trans |-> trans,
     bmt |-> bmt, complexity |-> complexity]

\* the rows a sheet is made of
Rows ==
    { Row(Str(<<"A">>), Str(<<"M">>), NaN, NaN, NaN, NaN),
      Row(Str(<<"I","I">>), Str(<<"G">>), NaN, NaN, NaN, NaN),
      Row(Num(<<"1">>), Str(<<"L">>), Str(<<"U">>), Str(<<"t">>), Str(<<"B">>), Str(<<"C">>)),
      Row(Num(<<"2">>), Str(<<"2"," ","f">>), Str(<<"U">>), NaN, NaN, NaN),
      Row(NaN, NaN, NaN, Str(<<"u">>), NaN, NaN),
      Row(NaN, NaN, NaN, NaN, NaN, NaN),
      Row(NaN, Str(<<"3","."," ","x">>), NaN, Str(<<"t">>), NaN, NaN),
      Row(Str(<<"#","c">>), Str(<<"M">>), NaN, Str(<<"t">>), NaN, NaN),
      Row(Str(<<"1",".","5">>), Str(<<"4",")"," ","y">>), NaN, Str(<<"t">>), NaN, NaN) }

VARIABLES
    pc,               \* where the run is: "rows" (read_excel's loop), "done", ...
    df,               \* the data rows of the sheet, as read (before forward fill)
    columns,          \* the flat pipelines: the required columns df.columns holds
    headers,          \* read_excel: the labels of df.columns, in column order
    cols,             \* read_excel: <<>>, or <<the column bound to each field>>
    i,                \* the index of the next row of the loop of read_excel
    modules,          \* read_excel: the list of flushed modules (the result)
    current_module,   \* read_excel: <<>> for None, <<module>> when open
    current_group,    \* read_excel: <<>> for None, <<group>> when open
    current_usecase,  \* read_excel: <<>> for None, <<usecase>> when open
    attached,         \* current_group is the very object that ends current_module["groups"]
    stt_raw,          \* the classifier run: the sequence cell given
    tag,              \* the classifier run: <<>> before, <<tag>> after classification
    final_data,       \* excel_to_docx.py main: the records built by the groupby loop
    grouped,          \* app.py main: the records built by the groupby loop
    saved,            \* the flat pipelines: the records written by document.save
    report,           \* excel_to_docx.py: <<>>, or <<what analyze_stt_column printed>>
    excel_path,       \* excel_to_docx_table.py main: what sys.argv[1] names
    status,           \* the mains: <<>> while running, <<exit status>> when ended
    message,          \* the mains: <<>>, or <<the diagnostic printed>>
    document          \* excel_to_docx_table.py: <<>>, or <<the table doc.save wrote>>

vars == <<pc, df, columns, headers, cols, i, modules, current_module, current_group,
          current_usecase, attached, stt_raw, tag, final_data, grouped, saved, report,
          excel_path, status, message, document>>

\* the variables that hold the input, and those of the hierarchy builder, of
\* the classifier run, of the flat pipelines and of the mains
inputVars == <<df, columns, headers>>
builderVars == <<i, modules, current_module, current_group, current_usecase, attached>>
classifierVars == <<stt_raw, tag>>
flatVars == <<final_data, grouped, saved>>
mainVars == <<report, excel_path, status, message, document>>

\* their values before the part of the program they belong to has run
BuilderIdle ==
    /\ i = 1
    /\ modules = <<>>
    /\ current_module = <<>>
    /\ current_group = <<>>
    /\ current_usecase = <<>>
    /\ attached = FALSE

ClassifierIdle == stt_raw = NaN /\ tag = <<>>

FlatIdle == final_data = <<>> /\ grouped = <<>> /\ saved = <<>>

\* the header row carries the six required labels
AllColumns == columns = Fields

\* the columns of the hierarchy pipeline before they are resolved
ResolveIdle == headers = <<>> /\ cols = <<>>

MainIdle ==
    /\ report = <<>>
    /\ excel_path = "sheet"
    /\ status = <<>>
    /\ message = <<>>
    /\ document = <<>>

\* df.dropna(axis=1, how="all"): the columns that hold a value in some data row
Columns(d) == {c \in Fields : \E k \in 1..Len(d) : d[k][c] # NaN}

\* df[col].ffill(): the cell of row k after forward fill, the last cell at or
\* above row k that holds a value, NaN when there is none
FFill(d, col, k) ==
    IF \E j \in 1..k : d[j][col] # NaN
    THEN d[CHOOSE j \in 1..k : d[j][col] # NaN /\ \A m \in (j + 1)..k : d[m][col] = NaN][col]
    ELSE NaN

\* the columns read_excel forward fills: name_col, actor_col, bmt_col, complexity_col
FillColumns == {"name", "actor", "bmt", "complexity"}

\* row k of df as the loop of read_excel sees it (after the forward fill)
FilledCell(d, col, k) == IF col \in FillColumns THEN FFill(d, col, k) ELSE d[k][col]

\* str(row.get(col)).strip() if col in df.columns and row.get(col) is not None
\* else "": an empty cell of a present column is NaN, not None, and reads "nan"
CellText(d, col, k) ==
    IF col \in Columns(d) THEN Strip(FilledCell(d, col, k).s) ELSE <<>>

\* re.sub(r"^\d+[\.\)]?\s*", "", name).strip()
RECURSIVE DropDigits(_)
DropDigits(s) == IF s # <<>> /\ Head(s) \in Digit THEN DropDigits(Tail(s)) ELSE s

DropSuffix(s) == IF s # <<>> /\ Head(s) \in Suffix THEN Tail(s) ELSE s

StripLeadingNumber(name) ==
    IF name # <<>> /\ Head(name) \in Digit
    THEN Strip(LStrip(DropSuffix(DropDigits(name))))
    ELSE Strip(name)

\* _is_level3(_normalize_stt(name.split()[0])), tried when the sequence text is
\* not Level3 and the name is not empty
Recover(stt, name) ==
    IF ~(stt # <<>> /\ _is_level3(stt).ok) /\ name # <<>>
    THEN _is_level3(Strip(FirstToken(name)))
    ELSE NoMatch

\* the value of F at x, with x computed once
Bind(x, F(_)) == CHOOSE r \in {F(y) : y \in {x}} : TRUE

\* the six texts the loop of read_excel reads from row k
RowTexts(d, k) ==
    [stt |-> _normalize_stt(d[k].stt),
     name |-> CellText(d, "name", k),
     actor |-> CellText(d, "actor", k),
     trans |-> CellText(d, "trans", k),
     bmt |-> CellText(d, "bmt", k),
     complexity |-> CellText(d, "complexity", k)]

\* the decision of an iteration without the test of line 160: a row marked
\* with "#" is classified as any other row
DecideMarkerClassified(x) ==
    LET base == [stt |-> x.stt, name |-> x.name, actor |-> x.actor, trans |-> x.trans,
                 bmt |-> x.bmt, complexity |-> x.complexity,
                 kind |-> "line", code |-> None, recovered |-> FALSE]
    IN IF x.stt = <<>> /\ x.name = <<>> /\ x.trans = <<>>
       THEN [base EXCEPT !.kind = "skip"]
       ELSE Bind(Classify(x.stt), LAMBDA t :
              IF t.level # "None"
              THEN [base EXCEPT !.kind = t.level, !.code = t.code]
              ELSE Bind(Recover(x.stt, x.name), LAMBDA rec :
                     IF rec.ok
                     THEN [base EXCEPT !.kind = "Level3", !.code = rec.code,
                                       !.name = StripLeadingNumber(x.name),
                                       !.recovered = TRUE]
                     ELSE base))

\* What one iteration of the loop of read_excel decides about a row of
\* texts x: the branch taken ("skip", "Level1", "Level2", "Level3", "line" for
\* the transaction-line fall-through) with the code and the name it uses.
Decide(x) ==
    LET base == [stt |-> x.stt, name |-> x.name, actor |-> x.actor, trans |-> x.trans,
                 bmt |-> x.bmt, complexity |-> x.complexity,
                 kind |-> "line", code |-> None, recovered |-> FALSE]
    IN IF x.stt # <<>> /\ Head(x.stt) = "#" THEN [base EXCEPT !.kind = "skip"]
       ELSE IF x.stt = <<>> /\ x.name = <<>> /\ x.trans = <<>>
            THEN [base EXCEPT !.kind = "skip"]
       ELSE Bind(Classify(x.stt), LAMBDA t :
              IF t.level # "None"
              THEN [base EXCEPT !.kind = t.level, !.code = t.code]
              ELSE Bind(Recover(x.stt, x.name), LAMBDA rec :
                     IF rec.ok
                     THEN [base EXCEPT !.kind = "Level3", !.code = rec.code,
                                       !.name = StripLeadingNumber(x.name),
                                       !.recovered = TRUE]
                     ELSE base))

\* row k of df as one iteration of the loop of read_excel treats it
RowView(d, k) == Bind(RowTexts(d, k), Decide)

\* ------------------------------------------------- the hierarchy builder
\* The nodes of the tree, as the dicts of read_excel.
Module(code, name) == [code |-> code, name |-> name, groups |-> <<>>]
Group(code, name) == [code |-> code, name |-> name, usecases |-> <<>>]
Usecase(v) ==
    [code |-> v.code, name |-> v.name, actor |-> v.actor, bmt |-> v.bmt,
     complexity |-> v.complexity, transactions |-> <<>>]

\* {"code": "A", "name": "PHAN HE MAC DINH", "groups": []} (the placeholder
\* name is written here without its diacritics)
DefaultModuleName == <<"P","H","A","N"," ","H","E"," ","M","A","C"," ","D","I","N","H">>
DefaultModule == Module(<<"A">>, DefaultModuleName)

\* {"code": None, "name": "", "usecases": []}
AnonymousGroup == Group(None, <<>>)

\* The builder's slots as one record, for the flush helpers (closures over
\* the nonlocal slots of read_excel).
Slots ==
    [modules |-> modules, current_module |-> current_module,
     current_group |-> current_group, current_usecase |-> current_usecase,
     attached |-> attached]

\* x in list, for a list of dicts: some element equals x (an element that is
\* the same object is equal too)
InList(x, list) == \E k \in 1..Len(list) : list[k] = x

\* the last element of the groups of the open module replaced: the effect, on
\* the module, of a change to the group object that ends its list
WithLastGroup(m, g) == [m EXCEPT !.groups = [@ EXCEPT ![Len(@)] = g]]

\* flush_usecase()
flush_usecase(st) ==
    IF st.current_usecase = <<>> THEN st
    ELSE LET st1 ==
                 IF st.current_group = <<>>
                 THEN [st EXCEPT
                         !.current_group = <<AnonymousGroup>>,
                         !.current_module =
                             IF @ # <<>>
                             THEN <<[@[1] EXCEPT !.groups = Append(@, AnonymousGroup)]>>
                             ELSE @,
                         !.attached = (st.current_module # <<>>)]
                 ELSE st
             g == [st1.current_group[1] EXCEPT
                     !.usecases = Append(@, st.current_usecase[1])]
         IN [st1 EXCEPT
               !.current_group = <<g>>,
               !.current_module = IF st1.attached THEN <<WithLastGroup(@[1], g)>> ELSE @,
               !.current_usecase = <<>>]

\* flush_group() without the test of line 136: the closed group is appended
\* to the open module whether or not the list holds it
flush_group_appending(st) ==
    IF st.current_group = <<>> THEN st
    ELSE [st EXCEPT
            !.current_module =
                IF @ # <<>>
                THEN <<[@[1] EXCEPT !.groups = Append(@, st.current_group[1])]>>
                ELSE @,
            !.current_group = <<>>,
            !.attached = FALSE]

\* flush_group()
flush_group(st) ==
    IF st.current_group = <<>> THEN st
    ELSE [st EXCEPT
            !.current_module =
                IF @ # <<>> /\ ~InList(st.current_group[1], @[1].groups)
                THEN <<[@[1] EXCEPT !.groups = Append(@, st.current_group[1])]>>
                ELSE @,
            !.current_group = <<>>,
            !.attached = FALSE]

\* flush_module()
flush_module(st) ==
    IF st.current_module = <<>> THEN st
    ELSE [st EXCEPT
            !.modules = IF ~InList(st.current_module[1], @)
                        THEN Append(@, st.current_module[1]) ELSE @,
            !.current_module = <<>>]

\* the slots written back
Store(st) ==
    /\ modules' = st.modules
    /\ current_module' = st.current_module
    /\ current_group' = st.current_group
    /\ current_usecase' = st.current_usecase
    /\ attached' = st.attached

\* "#" rows and rows with no sequence, name and transaction text: continue
SkipRow(v) ==
    /\ v.kind = "skip"
    /\ UNCHANGED <<modules, current_module, current_group, current_usecase, attached>>

\* Level 1: flush all three slots, open the module
Level1Row(v) ==
    /\ v.kind = "Level1"
    /\ LET st == flush_module(flush_group(flush_usecase(Slots)))
       IN Store([st EXCEPT !.current_module = <<Module(v.code, v.name)>>])

\* Level 2: flush the use-case and the group, open the group (in the default
\* module when none is open)
Level2Row(v) ==
    /\ v.kind = "Level2"
    /\ LET st == flush_group(flush_usecase(Slots))
       IN Store([st EXCEPT
                   !.current_module = IF @ = <<>> THEN <<DefaultModule>> ELSE @,
                   !.current_group = <<Group(v.code, v.name)>>,
                   !.attached = FALSE])

\* the Level 3 branch without lines 200-202: the use-case is opened whether or
\* not a group is open, and no anonymous group is made for it
OpenUsecaseNoGroup(st0, v) ==
    LET st == flush_usecase(st0)
        st1 == [st EXCEPT !.current_module = IF @ = <<>> THEN <<DefaultModule>> ELSE @]
        uc == Usecase(v)
    IN [st1 EXCEPT
          !.current_usecase =
              <<IF v.trans # <<>>
                THEN [uc EXCEPT !.transactions = Append(@, v.trans)]
                ELSE uc>>]

\* the Level 3 branch opening an anonymous group for every use-case, whether
\* or not a group is open
OpenUsecaseNewGroup(st0, v) ==
    LET st == flush_group(flush_usecase(st0))
        st1 == [st EXCEPT !.current_module = IF @ = <<>> THEN <<DefaultModule>> ELSE @]
        st2 == [st1 EXCEPT
                  !.current_group = <<AnonymousGroup>>,
                  !.current_module =
                      <<[@[1] EXCEPT !.groups = Append(@, AnonymousGroup)]>>,
                  !.attached = TRUE]
        uc == Usecase(v)
    IN [st2 EXCEPT
          !.current_usecase =
              <<IF v.trans # <<>>
                THEN [uc EXCEPT !.transactions = Append(@, v.trans)]
                ELSE uc>>]

\* the Level 3 branch: the slots after the use-case of view v is opened
OpenUsecase(st0, v) ==
    LET st == flush_usecase(st0)
        st1 == [st EXCEPT !.current_module = IF @ = <<>> THEN <<DefaultModule>> ELSE @]
        st2 == IF st1.current_group = <<>>
               THEN [st1 EXCEPT
                       !.current_group = <<AnonymousGroup>>,
                       !.current_module =
                           <<[@[1] EXCEPT !.groups = Append(@, AnonymousGroup)]>>,
                       !.attached = TRUE]
               ELSE st1
        uc == Usecase(v)
    IN [st2 EXCEPT
          !.current_usecase =
              <<IF v.trans # <<>>
                THEN [uc EXCEPT !.transactions = Append(@, v.trans)]
                ELSE uc>>]

\* Level 3 (by the sequence text or by the number at the head of the name)
Level3Row(v) ==
    /\ v.kind = "Level3"
    /\ Store(OpenUsecase(Slots, v))

\* Transaction line: appended to the open use-case, else the row is dropped
TransactionRow(v) ==
    /\ v.kind = "line"
    /\ IF v.trans # <<>> /\ current_usecase # <<>>
       THEN current_usecase' =
                <<[current_usecase[1] EXCEPT !.transactions = Append(@, v.trans)]>>
       ELSE current_usecase' = current_usecase
    /\ UNCHANGED <<modules, current_module, current_group, attached>>

\* one iteration of "for _, row in df.iterrows()"
IterRow ==
    /\ pc = "rows"
    /\ i <= Len(df)
    /\ \E v \in {RowView(df, i)} :
          \/ SkipRow(v)
          \/ Level1Row(v)
          \/ Level2Row(v)
          \/ Level3Row(v)
          \/ TransactionRow(v)
    /\ i' = i + 1
    /\ UNCHANGED <<pc, inputVars, cols, classifierVars, flatVars, mainVars>>

\* Flush remaining, return modules
FlushRemaining ==
    /\ pc = "rows"
    /\ i > Len(df)
    /\ Store(flush_module(flush_group(flush_usecase(Slots))))
    /\ pc' = "done"
    /\ UNCHANGED <<i, inputVars, cols, classifierVars, flatVars, mainVars>>

\* the sheets read: up to MaxRows rows whose sequence column and name column
\* each hold a value (so both columns survive dropna and are found by label)
Sheets ==
    {d \in UNION {[1..n -> Rows] : n \in 1..MaxRows} :
        "stt" \in Columns(d) /\ "name" \in Columns(d)}

\* read_excel at the head of its loop: nothing open, no module yet
Init ==
    /\ pc = "rows"
    /\ df \in Sheets
    /\ BuilderIdle
    /\ ClassifierIdle
    /\ FlatIdle
    /\ AllColumns
    /\ ResolveIdle
    /\ MainIdle

Next ==
    \/ IterRow
    \/ FlushRemaining

Spec == Init /\ [][Next]_vars

\* ------------------------------------ excel_to_docx_table.py: main
\* a row of the table of generate_word: the texts of its six cells
TableRow(stt, name, actor, trans, bmt, complexity) ==
    [stt |-> stt, name |-> name, actor |-> actor, trans |-> trans,
     bmt |-> bmt, complexity |-> complexity]

\* headers (the labels without their diacritics)
HeaderRow ==
    TableRow(<<"S","T","T">>, <<"T","e","n"," ","U","s","e","-","c","a","s","e">>,
             <<"T","a","c"," ","n","h","a","n">>, <<"G","i","a","o"," ","d","i","c","h">>,
             <<"B","M","T">>, <<"D","o"," ","p","h","u","c"," ","t","a","p">>)

\* the rows of one use-case were the loop to run over usecase["transactions"]
\* itself, without the fallback to [""]
UsecaseTableRowsNoFallback(usecase) ==
    [idx \in 1..Len(usecase.transactions) |->
        IF idx = 1
        THEN TableRow(usecase.code, usecase.name, usecase.actor, usecase.transactions[idx],
                      usecase.bmt, usecase.complexity)
        ELSE TableRow(<<>>, <<>>, <<>>, usecase.transactions[idx], <<>>, <<>>)]

\* the rows of one use-case: transactions or [""], the use-case's cells on
\* the first row only
UsecaseTableRows(usecase) ==
    LET transactions == IF usecase.transactions # <<>> THEN usecase.transactions ELSE << <<>> >>
    IN [idx \in 1..Len(transactions) |->
           IF idx = 1
           THEN TableRow(usecase.code, usecase.name, usecase.actor, transactions[idx],
                         usecase.bmt, usecase.complexity)
           ELSE TableRow(<<>>, <<>>, <<>>, transactions[idx], <<>>, <<>>)]

RECURSIVE UsecasesTableRows(_)
UsecasesTableRows(usecases) ==
    IF usecases = <<>> THEN <<>>
    ELSE UsecaseTableRows(Head(usecases)) \o UsecasesTableRows(Tail(usecases))

\* the rows of one group: its Level 2 row if group["code"], then its use-cases
GroupTableRows(group) ==
    (IF group.code # None /\ group.code # <<>>
     THEN <<TableRow(group.code, group.name, <<>>, <<>>, <<>>, <<>>)>> ELSE <<>>)
    \o UsecasesTableRows(group.usecases)

RECURSIVE GroupsTableRows(_)
GroupsTableRows(groups) ==
    IF groups = <<>> THEN <<>>
    ELSE GroupTableRows(Head(groups)) \o GroupsTableRows(Tail(groups))

\* the rows of one module: its Level 1 row, then its groups
ModuleTableRows(module) ==
    <<TableRow(module.code, module.name, <<>>, <<>>, <<>>, <<>>)>>
    \o GroupsTableRows(module.groups)

RECURSIVE ModulesTableRows(_)
ModulesTableRows(ms) ==
    IF ms = <<>> THEN <<>>
    ELSE ModuleTableRows(Head(ms)) \o ModulesTableRows(Tail(ms))

\* generate_word: the table written
generate_word(ms) == <<HeaderRow>> \o ModulesTableRows(ms)

\* main: sys.argv has no input path
MainUsage ==
    /\ pc = "main"
    /\ excel_path = "absent"
    /\ message' = <<"usage">>
    /\ status' = <<1>>
    /\ pc' = "exit"
    /\ UNCHANGED <<inputVars, cols, builderVars, classifierVars, flatVars, report, excel_path, document>>

\* main: the input path does not exist
MainNotFound ==
    /\ pc = "main"
    /\ excel_path = "missing"
    /\ message' = <<"not found">>
    /\ status' = <<1>>
    /\ pc' = "exit"
    /\ UNCHANGED <<inputVars, cols, builderVars, classifierVars, flatVars, report, excel_path, document>>

\* main calls read_excel; raw_df.empty: read_excel returns []
ReadEmpty ==
    /\ pc = "main"
    /\ excel_path = "empty"
    /\ pc' = "done"
    /\ UNCHANGED <<inputVars, cols, builderVars, classifierVars, flatVars, mainVars>>

\* main calls read_excel; dropna leaves no column (there is no data row, or
\* no data cell), so df.columns[0] raises IndexError and main ends with the
\* traceback
ReadRaises ==
    /\ pc = "main"
    /\ excel_path = "sheet"
    /\ Columns(df) = {}
    /\ message' = <<"traceback">>
    /\ status' = <<1>>
    /\ pc' = "exit"
    /\ UNCHANGED <<inputVars, cols, builderVars, classifierVars, flatVars, report, excel_path, document>>

\* main calls read_excel, which comes to the head of its loop
ReadStart ==
    /\ pc = "main"
    /\ excel_path = "sheet"
    /\ Columns(df) # {}
    /\ pc' = "rows"
    /\ UNCHANGED <<inputVars, cols, builderVars, classifierVars, flatVars, mainVars>>

\* main: read_excel returned no module
MainNoData ==
    /\ pc = "done"
    /\ modules = <<>>
    /\ message' = <<"no data">>
    /\ status' = <<1>>
    /\ pc' = "exit"
    /\ UNCHANGED <<inputVars, cols, builderVars, classifierVars, flatVars, report, excel_path, document>>

\* main: generate_word(modules, word_path), the closing message
MainGenerate ==
    /\ pc = "done"
    /\ modules # <<>>
    /\ document' = <<generate_word(modules)>>
    /\ message' = <<"created">>
    /\ status' = <<0>>
    /\ pc' = "exit"
    /\ UNCHANGED <<inputVars, cols, builderVars, classifierVars, flatVars, report, excel_path>>

\* the sheets main is given: those of Sheets, and the sheet of a header row
\* and no data row
MainSheets == Sheets \cup {<<>>}

InitMain ==
    /\ pc = "main"
    /\ \/ excel_path = "sheet" /\ df \in MainSheets
       \/ excel_path \in {"absent", "missing", "empty"} /\ df = <<>>
    /\ BuilderIdle
    /\ ClassifierIdle
    /\ FlatIdle
    /\ AllColumns
    /\ ResolveIdle
    /\ report = <<>>
    /\ status = <<>>
    /\ message = <<>>
    /\ document = <<>>

NextMain ==
    \/ MainUsage
    \/ MainNotFound
    \/ ReadEmpty
    \/ ReadRaises
    \/ ReadStart
    \/ IterRow
    \/ FlushRemaining
    \/ MainNoData
    \/ MainGenerate

SpecMain == InitMain /\ [][NextMain]_vars

\* ------------------------------------- read_excel: the columns resolved
\* bound: the number of columns of a header row
MaxHeaders == 3

\* key in col_lower: the text holds the key as a substring
Contains(key, text) ==
    \E k \in 1..(Len(text) - Len(key) + 1) : SubSeq(text, k, k + Len(key) - 1) = key

\* str(col).strip().lower()
ColLower(col) == LowerText(Strip(col))

\* the first key of the list that satisfies Test, 0 when none does
FirstIndex(n, Test(_)) ==
    IF \E k \in 1..n : Test(k)
    THEN CHOOSE k \in 1..n : Test(k) /\ \A j \in 1..(k - 1) : ~Test(j)
    ELSE 0

\* _find_column(columns, candidates): the position of the column returned, 0
\* for None. lower_map keeps, for a lowered label, the last column that has
\* it; the first candidate that is a key of lower_map wins; failing that, the
\* first column whose lowered label contains a candidate.
_find_column(labels, candidates) ==
    LET exact == FirstIndex(Len(candidates),
                     LAMBDA c : \E k \in 1..Len(labels) : ColLower(labels[k]) = candidates[c])
        fuzzy == FirstIndex(Len(labels),
                     LAMBDA k : \E c \in 1..Len(candidates) :
                                   Contains(candidates[c], ColLower(labels[k])))
    IN IF exact # 0
       THEN CHOOSE k \in 1..Len(labels) :
                /\ ColLower(labels[k]) = candidates[exact]
                /\ \A j \in (k + 1)..Len(labels) : ColLower(labels[j]) # candidates[exact]
       ELSE fuzzy

\* the candidate labels of the six fields (written without their diacritics;
\* a candidate that differs from another by its diacritics only is once here)
SttCandidates == <<<<"s">>, <<"s","t","t">>, <<"t","t">>>>
NameCandidates == <<<<"t","e","n"," ","u","s","e","-","c","a","s","e">>, <<"u","s","e","-","c","a","s","e">>, <<"u","s","e"," ","c","a","s","e">>>>
ActorCandidates == <<<<"t","a","c"," ","n","h","a","n">>, <<"t","e","n"," ","t","a","c"," ","n","h","a","n">>, <<"a","c","t","o","r">>>>
TransCandidates == <<<<"g","i","a","o"," ","d","i","c","h">>, <<"t","r","a","n","s","a","c","t","i","o","n">>>>
BmtCandidates == <<<<"b","m","t">>>>
ComplexityCandidates == <<<<"d","o"," ","p","h","u","c"," ","t","a","p">>, <<"c","o","m","p","l","e","x","i","t","y">>>>

\* read_excel from "Identify columns" to the fallbacks: the column bound to
\* each field, 0 for a field left None
ResolveColumns(labels) ==
    LET stt_col == _find_column(labels, SttCandidates)
        name_col == _find_column(labels, NameCandidates)
    IN [stt_col |-> IF stt_col = 0 THEN 1 ELSE stt_col,
        name_col |-> IF name_col # 0 THEN name_col
                     ELSE IF Len(labels) > 1 THEN 2 ELSE 1,
        actor_col |-> _find_column(labels, ActorCandidates),
        trans_col |-> _find_column(labels, TransCandidates),
        bmt_col |-> _find_column(labels, BmtCandidates),
        complexity_col |-> _find_column(labels, ComplexityCandidates)]

\* the columns forward-filled: name, actor, BMT and complexity, when bound
ForwardFilled(c) == {c.name_col, c.actor_col, c.bmt_col, c.complexity_col} \ {0}

\* the labels a header row is made of (written without their diacritics)
HeaderLabels ==
    {<<"S","T","T">>,
     <<"N","o">>,
     <<"T","e","n"," ","U","s","e","-","c","a","s","e">>,
     <<"U","s","e"," ","c","a","s","e">>,
     <<"A","c","t","o","r">>,
     <<"G","i","a","o"," ","d","i","c","h">>,
     <<"B","M","T">>,
     <<"D","o"," ","p","h","u","c"," ","t","a","p">>}

\* the header rows: up to MaxHeaders columns with different labels
HeaderRows ==
    {h \in UNION {[1..n -> HeaderLabels] : n \in 1..MaxHeaders} :
        \A j, k \in 1..Len(h) : j # k => h[j] # h[k]}

\* read_excel resolves the columns of the frame
Resolve ==
    /\ pc = "resolve"
    /\ cols' = <<ResolveColumns(headers)>>
    /\ pc' = "resolved"
    /\ UNCHANGED <<inputVars, builderVars, classifierVars, flatVars, mainVars>>

InitResolve ==
    /\ pc = "resolve"
    /\ df = <<>>
    /\ headers \in HeaderRows
    /\ cols = <<>>
    /\ BuilderIdle
    /\ ClassifierIdle
    /\ FlatIdle
    /\ columns = Fields
    /\ MainIdle

NextResolve == Resolve

SpecResolve == InitResolve /\ [][NextResolve]_vars

\* ------------------------------------------------- the classifier alone
\* classify: the tag read_excel gives a sequence cell, normalised first
ClassifyCell ==
    /\ pc = "classify"
    /\ tag' = <<Classify(_normalize_stt(stt_raw))>>
    /\ pc' = "classified"
    /\ UNCHANGED <<inputVars, cols, stt_raw, builderVars, flatVars, mainVars>>

InitClassify ==
    /\ pc = "classify"
    /\ stt_raw \in SttCells
    /\ tag = <<>>
    /\ df = <<>>
    /\ BuilderIdle
    /\ FlatIdle
    /\ AllColumns
    /\ ResolveIdle
    /\ MainIdle

NextClassify == ClassifyCell

SpecClassify == InitClassify /\ [][NextClassify]_vars

\* ------------------------------------------- the flat pipelines' text tools
NL == "\n"
Sign == {"+", "-"}

\* the digits of a decimal literal, its sign removed
Unsigned(s) == IF s # <<>> /\ Head(s) \in Sign THEN Tail(s) ELSE s

\* the digits before and after the decimal point of a literal
IntPart(s) == IF PointAt(Unsigned(s)) = 0 THEN Unsigned(s)
              ELSE SubSeq(Unsigned(s), 1, PointAt(Unsigned(s)) - 1)

FracPart(s) == IF PointAt(Unsigned(s)) = 0 THEN <<>>
               ELSE SubSeq(Unsigned(s), PointAt(Unsigned(s)) + 1, Len(Unsigned(s)))

\* Decimal(text) and float(text) accept the literal: an optional sign, digits
\* with at most one decimal point and a digit on one side of it at least.  (The
\* sheets below carry no exponent, "inf" or "nan" literal.)
IsDecimalLiteral(s) ==
    /\ IntPart(s) \o FracPart(s) # <<>>
    /\ \A k \in 1..Len(IntPart(s)) : IntPart(s)[k] \in Digit
    /\ \A k \in 1..Len(FracPart(s)) : FracPart(s)[k] \in Digit

\* number == number.to_integral_value(), float(text).is_integer()
LiteralIsInteger(s) == \A k \in 1..Len(FracPart(s)) : FracPart(s)[k] = "0"

RECURSIVE DropLeadingZeros(_)
DropLeadingZeros(s) ==
    IF Len(s) > 1 /\ Head(s) = "0" THEN DropLeadingZeros(Tail(s)) ELSE s

\* str(int(number)) of an integral literal
LiteralIntText(s) ==
    LET digits == DropLeadingZeros(IF IntPart(s) = <<>> THEN <<"0">> ELSE IntPart(s))
    IN IF s # <<>> /\ Head(s) = "-" /\ digits # <<"0">> THEN <<"-">> \o digits ELSE digits

\* "\n".join(lines)
RECURSIVE JoinLines(_)
JoinLines(lines) ==
    IF lines = <<>> THEN <<>>
    ELSE IF Len(lines) = 1 THEN lines[1]
    ELSE lines[1] \o <<NL>> \o JoinLines(Tail(lines))

\* str.splitlines() (the line break of the sheets below is "\n")
RECURSIVE SplitLines(_)
SplitLines(s) ==
    IF s = <<>> THEN <<>>
    ELSE IF \E k \in 1..Len(s) : s[k] = NL
    THEN LET p == CHOOSE k \in 1..Len(s) : s[k] = NL /\ \A j \in 1..(k - 1) : s[j] # NL
         IN <<SubSeq(s, 1, p - 1)>> \o SplitLines(SubSeq(s, p + 1, Len(s)))
    ELSE <<s>>

\* a set of row indices in row order
RECURSIVE InOrder(_)
InOrder(S) ==
    IF S = {} THEN <<>>
    ELSE LET m == CHOOSE k \in S : \A j \in S : k <= j
         IN <<m>> \o InOrder(S \ {m})

\* ------------------------------------------- the sheets of the flat pipelines
\* bound: the number of data rows of a sheet of the flat pipelines
MaxFlatRows == 3

\* the rows such a sheet is made of; its header row carries the six required
\* labels, in the order of REQUIRED_COLUMNS
FlatRows ==
    { Row(Num(<<"1">>), Str(<<"L">>), Str(<<"U">>), Str(<<"a">>), Str(<<"B">>), Str(<<"C">>)),
      Row(NaN, NaN, NaN, Str(<<"b">>), NaN, NaN),
      Row(NaN, NaN, NaN, NaN, NaN, NaN),
      Row(Num(<<"2">>), Str(<<"K">>), Str(<<"V">>), NaN, NaN, NaN),
      Row(Num(<<"1">>), NaN, Str(<<"U">>), Str(<<"a">>), NaN, NaN),
      Row(Str(<<"A">>), Str(<<"M">>), NaN, NaN, NaN, NaN),
      Row(Str(<<"1">>), Str(<<"L">>), NaN, Str(<<" ","c",NL,"d">>), NaN, NaN),
      Row(Str(<<"I","n","f">>), Str(<<"M">>), NaN, NaN, NaN, NaN) }

\* pd.read_excel(path, header=header_idx) infers the type of a column from its
\* cells: a text cell that reads as a number stays text only in a column that
\* holds a cell that does not read as a number
IsNumericCell(cell) ==
    cell.t \in {"nan", "num"} \/ (cell.t = "str" /\ IsDecimalLiteral(cell.s))

AsRead(d) ==
    \A c \in Fields :
        (\E k \in 1..Len(d) : d[k][c].t = "str" /\ IsDecimalLiteral(d[k][c].s))
            => \E k \in 1..Len(d) : ~IsNumericCell(d[k][c])

FlatSheets == {d \in UNION {[1..n -> FlatRows] : n \in 1..MaxFlatRows} : AsRead(d)}

\* ------------------------------------------------- excel_to_docx.py: main
\* Decimal(text) reads the literal as an infinity: int(number) then raises
\* OverflowError, which parse_stt_value does not catch
IsInfinityLiteral(s) ==
    LowerText(Unsigned(s)) \in {<<"i","n","f">>, <<"i","n","f","i","n","i","t","y">>}

\* parse_stt_value raises on this value
ParseRaises(value) == value.t # "nan" /\ IsInfinityLiteral(Strip(value.s))

\* int_value: the integer an integral literal's text denotes
RECURSIVE DigitsValue(_)
DigitsValue(s) ==
    IF s = <<>> THEN 0
    ELSE 10 * DigitsValue(SubSeq(s, 1, Len(s) - 1))
         + ((CHOOSE k \in 1..10 : DigitSeq[k] = s[Len(s)]) - 1)

IntValue(s) == IF Head(s) = "-" THEN 0 - DigitsValue(Tail(s)) ELSE DigitsValue(s)

\* parse_stt_value: (is_num, clean text); the clean text is None when the value
\* is not an integral number
parse_stt_value(value) ==
    IF value.t = "nan" THEN NoMatch
    ELSE IF Strip(value.s) = <<>> THEN NoMatch
    ELSE IF ~IsDecimalLiteral(Strip(value.s)) THEN NoMatch
    ELSE IF ~LiteralIsInteger(Strip(value.s)) THEN NoMatch
    ELSE Match(LiteralIntText(Strip(value.s)))

\* fill_cols
fill_cols == {"stt", "name", "actor", "bmt", "complexity"}

\* df[col].replace(['nan', 'None', ''], pd.NA) on one cell
ReplaceBlank(cell) ==
    IF cell.t = "str" /\ cell.s \in {<<"n","a","n">>, <<"N","o","n","e">>, <<>>}
    THEN NaN ELSE cell

\* the frame after the loop over fill_cols: the replaced cells, forward filled
Replaced(d) ==
    [k \in 1..Len(d) |->
        [c \in Fields |-> IF c \in fill_cols THEN ReplaceBlank(d[k][c]) ELSE d[k][c]]]

FilledFrame(d) ==
    [k \in 1..Len(d) |->
        [c \in Fields |-> IF c \in fill_cols THEN FFill(Replaced(d), c, k) ELSE d[k][c]]]

\* df["STT_CLEAN"]
STT_CLEAN(f, k) == parse_stt_value(f[k].stt)

\* df.groupby(["STT_CLEAN", name], sort=False): a row with a missing key is in
\* no group; the groups come in the order of their first rows
GroupedRows(f) == {k \in 1..Len(f) : STT_CLEAN(f, k).ok /\ f[k].name # NaN}

SameGroup(f, j, k) == STT_CLEAN(f, j).code = STT_CLEAN(f, k).code /\ f[j].name = f[k].name

GroupOf(f, k) == InOrder({j \in GroupedRows(f) : SameGroup(f, j, k)})

FirstRows(f) ==
    InOrder({k \in GroupedRows(f) : \A j \in GroupedRows(f) : j < k => ~SameGroup(f, j, k)})

\* trans_list: the stripped transaction texts of the group that are neither
\* empty nor "nan"
RECURSIVE trans_list(_, _)
trans_list(f, rows) ==
    IF rows = <<>> THEN <<>>
    ELSE LET g == f[Head(rows)].trans.s
         IN (IF Strip(g) # <<>> /\ LowerText(g) # <<"n","a","n">> THEN <<Strip(g)>> ELSE <<>>)
            \o trans_list(f, Tail(rows))

\* the record appended to final_data for the group that starts at row k
FlatRecord(f, k) ==
    [stt |-> STT_CLEAN(f, k).code,
     name |-> f[k].name,
     actor |-> f[k].actor,
     bmt |-> f[k].bmt,
     complexity |-> f[k].complexity,
     trans |-> JoinLines(trans_list(f, GroupOf(f, k)))]

FlatRecords(f) == [n \in 1..Len(FirstRows(f)) |-> FlatRecord(f, FirstRows(f)[n])]

\* create_usecase_table: the heading and the event text written for a record
FlatTable(item) ==
    [title |-> item.stt \o <<".", " ", "U", "C", " ">> \o UpperText(item.name.s),
     events |-> IF Strip(item.trans) # <<>> /\ LowerText(Strip(item.trans)) # <<"n","a","n">>
                THEN <<NL>> \o Strip(item.trans) ELSE <<>>]

\* analyze_stt_column: numeric_values, the integers of the cells that parse
RECURSIVE numeric_values(_)
numeric_values(column) ==
    IF column = <<>> THEN <<>>
    ELSE (IF parse_stt_value(Head(column)).ok
          THEN <<IntValue(parse_stt_value(Head(column)).code)>> ELSE <<>>)
         \o numeric_values(Tail(column))

\* Counter(numeric_values)[val]
Count(values, val) == Cardinality({n \in 1..Len(values) : values[n] = val})

\* sorted(...) of a set of integers
RECURSIVE Sorted(_)
Sorted(S) ==
    IF S = {} THEN <<>>
    ELSE LET m == CHOOSE v \in S : \A w \in S : v <= w
         IN <<m>> \o Sorted(S \ {m})

\* the loop over zip(unique_sorted, unique_sorted[1:])
RECURSIVE MissingBetween(_)
MissingBetween(unique_sorted) ==
    IF Len(unique_sorted) < 2 THEN <<>>
    ELSE (IF unique_sorted[2] - unique_sorted[1] > 1
          THEN Sorted((unique_sorted[1] + 1)..(unique_sorted[2] - 1)) ELSE <<>>)
         \o MissingBetween(Tail(unique_sorted))

\* what analyze_stt_column prints
Analysis(values) ==
    [total |-> Len(values),
     missing |-> MissingBetween(Sorted({values[n] : n \in 1..Len(values)})),
     duplicates |-> Sorted({v \in {values[n] : n \in 1..Len(values)} : Count(values, v) > 1})]

\* df["STT"]
SttColumn(d) == [k \in 1..Len(d) |-> d[k].stt]

\* main up to analyze_stt_column, the report printed
Analyze ==
    /\ pc = "analyze"
    /\ "stt" \in columns
    /\ \A k \in 1..Len(df) : ~ParseRaises(df[k].stt)
    /\ report' = <<Analysis(numeric_values(SttColumn(df)))>>
    /\ pc' = "aggregate"
    /\ UNCHANGED <<inputVars, cols, builderVars, classifierVars, flatVars,
                   excel_path, status, message, document>>

\* main ended by the exception parse_stt_value raises in analyze_stt_column
AnalyzeRaises ==
    /\ pc = "analyze"
    /\ "stt" \in columns
    /\ \E k \in 1..Len(df) : ParseRaises(df[k].stt)
    /\ pc' = "error"
    /\ UNCHANGED <<inputVars, cols, builderVars, classifierVars, flatVars, mainVars>>

\* main without a sequence column: the else branch prints the report of an
\* empty column
AnalyzeAbsent ==
    /\ pc = "analyze"
    /\ "stt" \notin columns
    /\ report' = <<Analysis(<<>>)>>
    /\ pc' = "aggregate"
    /\ UNCHANGED <<inputVars, cols, builderVars, classifierVars, flatVars,
                   excel_path, status, message, document>>

\* the records of the groupby loop: without a sequence column STT_CLEAN is
\* pd.NA in every row, every key is missing and the loop body never runs
GroupbyRecords(d) ==
    IF "stt" \in columns THEN Bind(FilledFrame(d), FlatRecords) ELSE <<>>

\* KeyError: df.groupby names a column the frame does not have, or the loop
\* body reads one
GroupbyRaises(d) ==
    \/ "name" \notin columns
    \/ GroupbyRecords(d) # <<>> /\ columns # Fields

\* main from the forward fill to the end of the groupby loop
Aggregate ==
    /\ pc = "aggregate"
    /\ ~GroupbyRaises(df)
    /\ final_data' = GroupbyRecords(df)
    /\ pc' = "save"
    /\ UNCHANGED <<inputVars, cols, builderVars, classifierVars, grouped, saved, mainVars>>

\* main ended by the KeyError of the groupby loop
AggregateRaises ==
    /\ pc = "aggregate"
    /\ GroupbyRaises(df)
    /\ pc' = "error"
    /\ UNCHANGED <<inputVars, cols, builderVars, classifierVars, flatVars, mainVars>>

\* main from Document() to doc.save
SaveFlat ==
    /\ pc = "save"
    /\ saved' = [n \in 1..Len(final_data) |-> FlatTable(final_data[n])]
    /\ pc' = "saved"
    /\ UNCHANGED <<inputVars, cols, builderVars, classifierVars, final_data, grouped, mainVars>>

InitFlat ==
    /\ pc = "analyze"
    /\ df \in FlatSheets
    /\ BuilderIdle
    /\ ClassifierIdle
    /\ FlatIdle
    /\ AllColumns
    /\ ResolveIdle
    /\ MainIdle

NextFlat == Analyze \/ AnalyzeRaises \/ Aggregate \/ SaveFlat

SpecFlat == InitFlat /\ [][NextFlat]_vars

\* ---------------------------------------------- analyze_stt_column alone
\* bound: the number of cells of a sequence column
MaxColumn == 4

\* the cells of such a column
ColumnCells ==
    { Num(<<"1">>), Num(<<"2">>), Num(<<"4">>), Str(<<"2",".","0">>), NaN,
      Str(<<"A">>), Num(<<"1",".","5">>), Str(<<"I","n","f">>) }

Columns1To(n) == UNION {[1..m -> ColumnCells] : m \in 1..n}

\* main at the call of analyze_stt_column, the frame a sequence column alone
InitAnalyze ==
    /\ pc = "analyze"
    /\ df \in {d \in {[k \in 1..Len(col) |-> Row(col[k], NaN, NaN, NaN, NaN, NaN)] :
                           col \in Columns1To(MaxColumn)} : AsRead(d)}
    /\ BuilderIdle
    /\ ClassifierIdle
    /\ FlatIdle
    /\ AllColumns
    /\ ResolveIdle
    /\ MainIdle

NextAnalyze == Analyze \/ AnalyzeRaises

SpecAnalyze == InitAnalyze /\ [][NextAnalyze]_vars

\* ------------------------------------------------------------ app.py: main
\* map_columns: giao_dich_empty, every transaction cell is empty after strip
giao_dich_empty(d) ==
    \A k \in 1..Len(d) : d[k].trans.t = "nan" \/ Strip(d[k].trans.s) = <<>>

\* apply_positional_mapping raises when fewer than the six required columns
\* hold a value (the sheet has the six columns only)
TooFewColumns(d) == Cardinality(Columns(d) \cap columns) < Cardinality(Fields)

\* map_columns: the columns are mapped by position when a required label is
\* missing or when the transaction column is empty
MapsByPosition(d) == columns # Fields \/ giao_dich_empty(d)

\* df.fillna(""): every empty cell becomes the empty text
FillNa(d) ==
    [k \in 1..Len(d) |-> [c \in Fields |-> IF d[k][c] = NaN THEN Str(<<>>) ELSE d[k][c]]]

\* the text of a cell of the frame: str(value)
TextOf(cell) == cell.s

\* df[[...]].ffill() on the frame fillna returned
AppFrame(d) ==
    [k \in 1..Len(d) |->
        [c \in Fields |-> IF c \in fill_cols THEN FFill(FillNa(d), c, k) ELSE FillNa(d)[k][c]]]

\* is_usecase_stt
is_usecase_stt(value) ==
    IF Strip(TextOf(value)) = <<>> THEN FALSE
    ELSE IF IsDecimalLiteral(Strip(TextOf(value))) THEN LiteralIsInteger(Strip(TextOf(value)))
    ELSE IsDigitText(Strip(TextOf(value)))

\* first_non_empty
RECURSIVE first_non_empty(_)
first_non_empty(values) ==
    IF values = <<>> THEN <<>>
    ELSE IF Strip(TextOf(Head(values))) # <<>> THEN TextOf(Head(values))
    ELSE first_non_empty(Tail(values))

\* the stripped non-empty lines of one value
RECURSIVE StrippedLines(_)
StrippedLines(lines) ==
    IF lines = <<>> THEN <<>>
    ELSE (IF Strip(Head(lines)) # <<>> THEN <<Strip(Head(lines))>> ELSE <<>>)
         \o StrippedLines(Tail(lines))

\* join_non_empty: the lines of the values, before the join
RECURSIVE LinesOf(_)
LinesOf(values) ==
    IF values = <<>> THEN <<>>
    ELSE (IF Strip(TextOf(Head(values))) = <<>> THEN <<>>
          ELSE StrippedLines(SplitLines(TextOf(Head(values)))))
         \o LinesOf(Tail(values))

join_non_empty(values) == JoinLines(LinesOf(values))

\* df.groupby(["STT", name], sort=False): no key is missing after fillna
AppSameGroup(f, j, k) == f[j].stt = f[k].stt /\ f[j].name = f[k].name

AppGroupOf(f, k) == InOrder({j \in 1..Len(f) : AppSameGroup(f, j, k)})

AppFirstRows(f) ==
    InOrder({k \in 1..Len(f) : is_usecase_stt(f[k].stt)
                               /\ \A j \in 1..(k - 1) : ~AppSameGroup(f, j, k)})

Column(f, rows, c) == [n \in 1..Len(rows) |-> f[rows[n]][c]]

\* giao_dich_lines
giao_dich_lines(f, rows) ==
    SelectSeq(Column(f, rows, "trans"), LAMBDA value : Strip(TextOf(value)) # <<>>)

\* the record appended to grouped for the group that starts at row k
AppRecord(f, k) ==
    [stt |-> first_non_empty(Column(f, AppGroupOf(f, k), "stt")),
     name |-> f[k].name,
     actor |-> first_non_empty(Column(f, AppGroupOf(f, k), "actor")),
     bmt |-> first_non_empty(Column(f, AppGroupOf(f, k), "bmt")),
     complexity |-> first_non_empty(Column(f, AppGroupOf(f, k), "complexity")),
     trans |-> join_non_empty(giao_dich_lines(f, AppGroupOf(f, k)))]

AppRecords(f) == [n \in 1..Len(AppFirstRows(f)) |-> AppRecord(f, AppFirstRows(f)[n])]

\* format_stt
format_stt(text) ==
    IF Strip(text) = <<>> THEN <<>>
    ELSE IF ~IsDecimalLiteral(Strip(text)) THEN Strip(text)
    ELSE IF LiteralIsInteger(Strip(text)) THEN LiteralIntText(Strip(text))
    ELSE Strip(text)

\* create_usecase_table: the heading and the event text written for a record
AppTable(row) ==
    [title |-> format_stt(row.stt) \o <<".", " ", "U", "C", " ">> \o UpperText(TextOf(row.name)),
     events |-> IF row.trans # <<>> THEN <<NL, NL>> \o row.trans ELSE <<>>]

\* main up to the end of the groupby loop, the mapping of the columns passing
AppAggregate ==
    /\ pc = "app"
    /\ ~(MapsByPosition(df) /\ TooFewColumns(df))
    /\ grouped' = Bind(AppFrame(df), AppRecords)
    /\ pc' = "app_save"
    /\ UNCHANGED <<inputVars, cols, builderVars, classifierVars, final_data, saved, mainVars>>

\* main ended by the ValueError of apply_positional_mapping
AppReject ==
    /\ pc = "app"
    /\ MapsByPosition(df) /\ TooFewColumns(df)
    /\ pc' = "app_error"
    /\ UNCHANGED <<inputVars, cols, builderVars, classifierVars, flatVars, mainVars>>

\* main from Document() to document.save
AppSave ==
    /\ pc = "app_save"
    /\ saved' = [n \in 1..Len(grouped) |-> AppTable(grouped[n])]
    /\ pc' = "app_saved"
    /\ UNCHANGED <<inputVars, cols, builderVars, classifierVars, final_data, grouped, mainVars>>

InitApp ==
    /\ pc = "app"
    /\ df \in FlatSheets
    /\ BuilderIdle
    /\ ClassifierIdle
    /\ FlatIdle
    /\ AllColumns
    /\ ResolveIdle
    /\ MainIdle

NextApp == AppAggregate \/ AppReject \/ AppSave

SpecApp == InitApp /\ [][NextApp]_vars

\* --------------------------- the flat pipelines, given any header row
\* the sheet holds the columns of any subset of the six required labels and
\* no other column; either program is run on it
InitColumns ==
    /\ pc \in {"analyze", "app"}
    /\ df \in FlatSheets
    /\ columns \in SUBSET Fields
    /\ ResolveIdle
    /\ BuilderIdle
    /\ ClassifierIdle
    /\ final_data = <<>> /\ grouped = <<>> /\ saved = <<>>
    /\ MainIdle

NextColumns == NextFlat \/ AnalyzeAbsent \/ AggregateRaises \/ NextApp

SpecColumns == InitColumns /\ [][NextColumns]_vars

\* ======================================================= the classifier
\* the sequence-cell text of the run, as the classifier's rules read it
SttText == IF stt_raw.t = "nan" THEN <<>> ELSE Strip(stt_raw.s)

\* a text without its one optional trailing "." or ")"
Body(s) == IF s # <<>> /\ s[Len(s)] \in Suffix THEN SubSeq(s, 1, Len(s) - 1) ELSE s

RomanSet == {RomanNumerals[k] : k \in 1..Len(RomanNumerals)}

\* the tag the rules of the classifier give a text, first matching rule first
RuleTag(s) ==
    IF s = <<>> THEN NoTag
    ELSE IF Len(Body(s)) = 1 /\ Body(s)[1] \in Upper THEN Tag("Level1", Body(s))
    ELSE IF UpperText(Body(s)) \in RomanSet THEN Tag("Level2", UpperText(Body(s)))
    ELSE IF IsDigitText(Body(s)) THEN Tag("Level3", Body(s))
    ELSE NoTag

\* the integer a text of digits writes
RECURSIVE DecimalValue(_)
DecimalValue(s) ==
    IF s = <<>> THEN 0
    ELSE 10 * DecimalValue(SubSeq(s, 1, Len(s) - 1))
         + ((CHOOSE k \in 1..10 : DigitSeq[k] = s[Len(s)]) - 1)

\* the plain decimal text of an integer 1..MaxDecimal: digits, no leading zero
IsPlainDecimal(s) ==
    IsDigitText(s) /\ s[1] # "0" /\ Len(s) <= Len(DecimalText(MaxDecimal))
    /\ DecimalValue(s) \in 1..MaxDecimal

\* C4: every roman numeral of the fixed set I..XX is classified Level2, with
\* the upper-cased numeral as its code.
C4_RomanIsLevel2 ==
    (pc = "classified" /\ stt_raw.t = "str" /\ stt_raw.s \in RomanSet)
        => tag = <<Tag("Level2", stt_raw.s)>>

C6_OnePointZeroIsOne ==
    (pc = "classified" /\ stt_raw \in {Num(<<"1",".","0">>), Str(<<"1",".","0">>)})
        => tag = <<Classify(_normalize_stt(Str(<<"1">>)))>>
           /\ tag = <<Tag("Level3", <<"1">>)>>

\* ------------------------------------------- well-formed hierarchies
\* bounds: modules of a hierarchy, groups of a module, use-cases of a group,
\* transaction lines of a use-case
MaxM == 2
MaxG == 2
MaxU == 2
MaxT == 2

\* the k-th transaction text, use-case name, group name and module name
TransText(k) == <<"t", DigitSeq[k + 1]>>
UsecaseName(k) == <<"L", DigitSeq[k + 1]>>
GroupName(k) == <<"G", DigitSeq[k + 1]>>
ModuleName(k) == <<"M", DigitSeq[k + 1]>>

\* the tree of m modules (codes A, B, ...), each of g groups (codes I, II,
\* ...), each of u use-cases (codes 1, 2, ...), each of t transaction lines
TreeOf(m, g, u, t) ==
    [a \in 1..m |->
        [code |-> <<UpperSeq[a]>>, name |-> ModuleName(a),
         groups |-> [b \in 1..g |->
            [code |-> RomanNumerals[b], name |-> GroupName(b),
             usecases |-> [c \in 1..u |->
                [code |-> DecimalText(c), name |-> UsecaseName(c), actor |-> <<"U">>,
                 bmt |-> <<"B">>, complexity |-> <<"C">>,
                 transactions |-> [e \in 1..t |-> TransText(e)]]]]]]]

\* the flat row stream of a tree, in nested order
RECURSIVE Concat(_)
Concat(ss) == IF ss = <<>> THEN <<>> ELSE Head(ss) \o Concat(Tail(ss))

UsecaseRows(uc) ==
    <<Row(Num(uc.code), Str(uc.name), Str(uc.actor), Str(uc.transactions[1]),
          Str(uc.bmt), Str(uc.complexity))>>
    \o [e \in 1..(Len(uc.transactions) - 1) |->
           Row(NaN, NaN, NaN, Str(uc.transactions[e + 1]), NaN, NaN)]

GroupRows(g) ==
    <<Row(Str(g.code), Str(g.name), NaN, NaN, NaN, NaN)>>
    \o Concat([c \in 1..Len(g.usecases) |-> UsecaseRows(g.usecases[c])])

ModuleRows(m) ==
    <<Row(Str(m.code), Str(m.name), NaN, NaN, NaN, NaN)>>
    \o Concat([b \in 1..Len(m.groups) |-> GroupRows(m.groups[b])])

Flatten(tree) == Concat([a \in 1..Len(tree) |-> ModuleRows(tree[a])])

Hierarchies ==
    {TreeOf(m, g, u, t) : m \in 1..MaxM, g \in 1..MaxG, u \in 1..MaxU, t \in 1..MaxT}

\* read_excel at the head of its loop, given the row stream of a hierarchy
InitRoundTrip ==
    /\ pc = "rows"
    /\ df \in {Flatten(h) : h \in Hierarchies}
    /\ BuilderIdle
    /\ ClassifierIdle
    /\ FlatIdle
    /\ AllColumns
    /\ ResolveIdle
    /\ MainIdle

SpecRoundTrip == InitRoundTrip /\ [][Next]_vars

\* C1: the row stream of a well-formed hierarchy is rebuilt as that
\* hierarchy: the same modules, groups, use-cases and transaction lines, with
\* the same codes, names, texts and order.
C1_RoundTrip ==
    pc = "done" => \A h \in Hierarchies : df = Flatten(h) => modules = h

\* ================================================= the hierarchy builder
\* every row of a sheet as the loop treats it
Views(d) == [k \in 1..Len(d) |-> RowView(d, k)]

\* the rows a..b of kind kd
RowsOfKind(vs, a, b, kd) == {k \in a..b : vs[k].kind = kd}

\* the use-cases of a tree
RECURSIVE UsecasesOfGroups(_)
UsecasesOfGroups(gs) ==
    IF gs = <<>> THEN 0 ELSE Len(Head(gs).usecases) + UsecasesOfGroups(Tail(gs))

UsecasesOfModule(m) == UsecasesOfGroups(m.groups)

RECURSIVE UsecasesOfTree(_)
UsecasesOfTree(tree) ==
    IF tree = <<>> THEN 0 ELSE UsecasesOfModule(Head(tree)) + UsecasesOfTree(Tail(tree))

\* C2: a row with a blank sequence cell, a blank name cell (the name is filled
\* from above) and transaction text, met while a use-case is open, is appended
\* as the last transaction line of that use-case and opens nothing.
C2_ContinuationAppends ==
    [][ (/\ pc = "rows"
         /\ i <= Len(df)
         /\ df[i].stt = NaN
         /\ df[i].name = NaN
         /\ df[i].trans.t = "str"
         /\ Strip(df[i].trans.s) # <<>>
         /\ current_usecase # <<>>)
        => /\ current_usecase' =
                <<[current_usecase[1] EXCEPT
                     !.transactions = Append(@, Strip(df[i].trans.s))]>>
           /\ UNCHANGED <<modules, current_module, current_group>> ]_vars

\* C3: the tree returned holds one use-case per row classified Level3.
C3_NoUsecaseLost ==
    pc = "done" =>
        UsecasesOfTree(modules)
            = Cardinality(RowsOfKind(Views(df), 1, Len(df), "Level3"))

\* the last row of the stretch that row k opens: the row before the next
\* Level1 row, or the last row of the sheet
StretchEnd(vs, k) ==
    IF \E j \in (k + 1)..Len(vs) : vs[j].kind = "Level1"
    THEN (CHOOSE j \in (k + 1)..Len(vs) :
             /\ vs[j].kind = "Level1"
             /\ \A m \in (k + 1)..(j - 1) : vs[m].kind # "Level1") - 1
    ELSE Len(vs)

\* the use-cases the rows a..b describe, in row order: one per Level3 row,
\* with the transaction text of the row and of the lines that follow it
RECURSIVE UsecasesOfRows(_, _, _, _)
UsecasesOfRows(vs, a, b, acc) ==
    IF a > b THEN acc
    ELSE UsecasesOfRows(vs, a + 1, b,
           IF vs[a].kind = "Level3"
           THEN Append(acc, [Usecase(vs[a]) EXCEPT
                               !.transactions =
                                   IF vs[a].trans # <<>> THEN <<vs[a].trans>> ELSE <<>>])
           ELSE IF vs[a].kind = "line" /\ vs[a].trans # <<>> /\ acc # <<>>
                THEN [acc EXCEPT ![Len(acc)].transactions = Append(@, vs[a].trans)]
                ELSE acc)

\* a Level1 row k followed, up to the next Level1 row, by Level3 rows and no
\* Level2 row
OnlyUsecasesFollow(vs, k) ==
    /\ vs[k].kind = "Level1"
    /\ RowsOfKind(vs, k + 1, StretchEnd(vs, k), "Level2") = {}
    /\ RowsOfKind(vs, k + 1, StretchEnd(vs, k), "Level3") # {}

\* the module such a row must give: one group, null code, empty name, holding
\* the use-cases of the stretch
ImplicitGroupModule(vs, k) ==
    [code |-> vs[k].code, name |-> vs[k].name,
     groups |-> <<[code |-> None, name |-> <<>>,
                   usecases |-> UsecasesOfRows(vs, k + 1, StretchEnd(vs, k), <<>>)]>>]

ScenarioB ==
    <<Row(Str(<<"A">>), Str(<<"M">>), NaN, NaN, NaN, NaN),
      Row(Num(<<"1">>), Str(<<"L">>), Str(<<"U">>), Str(<<"t">>), Str(<<"B">>), Str(<<"C">>))>>

BeforeFirstLevel1(vs) == StretchEnd(vs, 0)

\* the groups of a module that carry a code
CodedGroups(m) == {k \in 1..Len(m.groups) : m.groups[k].code # None}

\* C8: when a Level2 or Level3 row comes before any Level1 row, the first
\* module of the tree is the default module (code "A", the placeholder name)
\* and holds every group and use-case read before the first Level1 row.
C8_DefaultModuleHoldsAll ==
    pc = "done" =>
        Bind(Views(df), LAMBDA vs :
           LET e == BeforeFirstLevel1(vs)
           IN (RowsOfKind(vs, 1, e, "Level2") \cup RowsOfKind(vs, 1, e, "Level3") # {})
              => /\ modules # <<>>
                 /\ modules[1].code = <<"A">>
                 /\ modules[1].name = DefaultModuleName
                 /\ Cardinality(CodedGroups(modules[1]))
                       = Cardinality(RowsOfKind(vs, 1, e, "Level2"))
                 /\ UsecasesOfModule(modules[1])
                       = Cardinality(RowsOfKind(vs, 1, e, "Level3")))

\* ==================================================== the flat pipelines
\* a sheet that is one integer-sequence row followed by rows whose sequence,
\* name, actor, BMT and complexity cells are blank
IsUsecaseStretch(d) ==
    /\ parse_stt_value(d[1].stt).ok
    /\ \A k \in 2..Len(d) : \A c \in fill_cols : d[k][c] = NaN

\* the non-empty transaction cells of rows a..Len(d), in row order
RECURSIVE TransCells(_, _)
TransCells(d, a) ==
    IF a > Len(d) THEN <<>>
    ELSE (IF d[a].trans # NaN /\ Strip(d[a].trans.s) # <<>>
          THEN <<Strip(d[a].trans.s)>> ELSE <<>>)
         \o TransCells(d, a + 1)

\* C9: in excel_to_docx.py an integer-sequence row followed by rows whose
\* sequence, name, actor, BMT and complexity cells are blank yields exactly one
\* record; it has the sequence, name, actor, BMT and complexity of the first
\* row, and its transaction field is the newline-joined non-empty transaction
\* cells of those rows in row order, a blank cell contributing no line
C9_StretchIsOneRecord ==
    (pc \in {"save", "saved"} /\ IsUsecaseStretch(df)) =>
        final_data = << [stt |-> parse_stt_value(df[1].stt).code,
                         name |-> df[1].name,
                         actor |-> df[1].actor,
                         bmt |-> df[1].bmt,
                         complexity |-> df[1].complexity,
                         trans |-> JoinLines(TransCells(df, 1))] >>

\* row k is a continuation row: blank sequence and name, a transaction text
IsContinuation(d, k) ==
    /\ d[k].stt = NaN
    /\ d[k].name = NaN
    /\ d[k].trans # NaN
    /\ Strip(d[k].trans.s) # <<>>

\* row j is the nearest row above row k that has a sequence cell, the cell is
\* an integer, the row has a name and no row between them has one
IsOwner(d, j, k) ==
    /\ j < k
    /\ is_usecase_stt(d[j].stt)
    /\ d[j].stt # NaN
    /\ d[j].name # NaN
    /\ \A m \in (j + 1)..k : d[m].stt = NaN /\ d[m].name = NaN

SeqRange(s) == {s[n] : n \in 1..Len(s)}

\* C10: in app.py a continuation row with blank sequence and name is grouped
\* into the record of the nearest preceding integer-sequence row, and its
\* transaction text appears in the transaction field of that record
C10_ContinuationJoinsRecord ==
    pc \in {"app_save", "app_saved"} =>
        \A k \in 1..Len(df) : \A j \in 1..Len(df) :
            (IsContinuation(df, k) /\ IsOwner(df, j, k)) =>
                \E n \in 1..Len(grouped) :
                    /\ grouped[n].stt = TextOf(df[j].stt)
                    /\ grouped[n].name = df[j].name
                    /\ SeqRange(StrippedLines(SplitLines(df[k].trans.s)))
                           \subseteq SeqRange(SplitLines(grouped[n].trans))

\* the rows that carry an integer sequence cell and a name of their own
AppOwnerRows(d) ==
    {k \in 1..Len(d) : d[k].stt # NaN /\ is_usecase_stt(d[k].stt) /\ d[k].name # NaN}

\* the (sequence, name) pair of such a row, the sequence as the integer it is
AppPairOfRow(d, k) == <<format_stt(TextOf(d[k].stt)), d[k].name>>

\* the pairs of the sheet, each once, in the order of their first appearance
AppFirstPairs(d) ==
    LET first == InOrder({k \in AppOwnerRows(d) :
                     \A j \in AppOwnerRows(d) : j < k => AppPairOfRow(d, j) # AppPairOfRow(d, k)})
    IN [n \in 1..Len(first) |-> AppPairOfRow(d, first[n])]

\* the pairs of the records emitted, in the order of the records
AppRecordPairs(records) == [n \in 1..Len(records) |-> <<format_stt(records[n].stt), records[n].name>>]

\* C11: in app.py (as in excel_to_docx.py) the records come in the order of
\* the first appearance of their (sequence, name) pair in the sheet, rows of
\* one pair that are not adjacent are merged into the one record of the pair,
\* and no pair yields two records
C11_FirstAppearanceOrder ==
    pc \in {"app_save", "app_saved"} =>
        SelectSeq(AppRecordPairs(grouped), LAMBDA p : p \in SeqRange(AppFirstPairs(df)))
            = AppFirstPairs(df)

\* ================================================= the sequence analysis
\* the integer values of the cells of the sequence column, blank and
\* non-integer cells left out
IntegersOf(d) == numeric_values(SttColumn(d))

\* the integers from the smallest to the largest of a set of integers
Span(S) ==
    IF S = {} THEN {}
    ELSE (CHOOSE v \in S : \A w \in S : v <= w)..(CHOOSE v \in S : \A w \in S : w <= v)

\* a sequence of integers that ascends strictly
Ascending(seq) == \A n \in 1..(Len(seq) - 1) : seq[n] < seq[n + 1]

\* the column of the example: 1, 2, 2, 4
ExampleColumn ==
    [k \in 1..4 |-> Row(<<Num(<<"1">>), Num(<<"2">>), Num(<<"2">>), Num(<<"4">>)>>[k],
                         NaN, NaN, NaN, NaN, NaN)]

\* C12: analyze_stt_column reports as duplicates exactly the integers that
\* occur more than once, ascending and each once, and as missing exactly the
\* integers between the smallest and the largest that do not occur,
\* ascending; blank and non-integer cells are ignored; 1, 2, 2, 4 gives
\* duplicates 2 and missing 3; the report never stops the conversion
C12_AnalysisReport ==
    pc # "analyze" =>
        /\ pc # "error"
        /\ Len(report) = 1
        /\ LET vals == SeqRange(IntegersOf(df))
               r == report[1]
           IN /\ Ascending(r.duplicates)
              /\ SeqRange(r.duplicates) = {v \in vals : Count(IntegersOf(df), v) > 1}
              /\ Ascending(r.missing)
              /\ SeqRange(r.missing) =
                    {n \in Span(vals) : n \notin vals}
        /\ df = ExampleColumn => (report[1].duplicates = <<2>> /\ report[1].missing = <<3>>)

\* ========================================= the hierarchical top-level flow
\* main has ended with a diagnostic, a non-zero status and no document
FailedWithoutDocument ==
    /\ message # <<>>
    /\ message # <<"created">>
    /\ status # <<>>
    /\ status # <<0>>
    /\ document = <<>>

\* C13: when the input path does not exist, or when read_excel returns no
\* module, main prints a diagnostic and exits with non-zero status without
\* calling generate_word; a sheet of a header row and no data row is such a
\* case, read_excel returning no module and main taking the no-data exit; a
\* document is saved only after read_excel has returned a non-empty list
C13_NoDataNoDocument ==
    /\ (pc = "exit" /\ excel_path = "missing") => FailedWithoutDocument
    /\ (pc = "exit" /\ excel_path \in {"sheet", "empty"} /\ modules = <<>>)
           => FailedWithoutDocument
    /\ (pc = "exit" /\ excel_path = "sheet" /\ df = <<>>) => message = <<"no data">>
    /\ document # <<>> => (modules # <<>> /\ excel_path = "sheet")

\* C14: in both flat pipelines, when the sequence column or the name column
\* is absent once the columns are resolved, the run ends with an error and no
\* document is saved: an empty document is never saved silently.
C14_AbsentColumnIsAnError ==
    ~({"stt", "name"} \subseteq columns)
        => /\ pc \notin {"save", "saved", "app_save", "app_saved"}
           /\ saved = <<>>

\* ============================================================ the table
\* the places of the groups <<a, b>> and of the use-cases <<a, b, c>> of a tree
GroupPlaces(ms) ==
    UNION {{<<a, b>> : b \in 1..Len(ms[a].groups)} : a \in 1..Len(ms)}

UsecasePlaces(ms) ==
    UNION {{<<p[1], p[2], c>> : c \in 1..Len(ms[p[1]].groups[p[2]].usecases)} :
              p \in GroupPlaces(ms)}

GroupAt(ms, p) == ms[p[1]].groups[p[2]]
UsecaseAt(ms, p) == ms[p[1]].groups[p[2]].usecases[p[3]]

\* tree order on places
GroupBefore(p, q) == p[1] < q[1] \/ (p[1] = q[1] /\ p[2] < q[2])
UsecaseBefore(p, q) == GroupBefore(p, q) \/ (p[1] = q[1] /\ p[2] = q[2] /\ p[3] < q[3])

\* the groups with a non-empty code
CodedPlaces(ms) ==
    {p \in GroupPlaces(ms) : GroupAt(ms, p).code # None /\ GroupAt(ms, p).code # <<>>}

\* max(1, number of transactions), summed over a set of use-case places
RowsOfUsecase(u) == IF Len(u.transactions) > 1 THEN Len(u.transactions) ELSE 1

RECURSIVE RowsOfPlaces(_, _)
RowsOfPlaces(ms, S) ==
    IF S = {} THEN 0
    ELSE LET p == CHOOSE q \in S : TRUE
         IN RowsOfUsecase(UsecaseAt(ms, p)) + RowsOfPlaces(ms, S \ {p})

\* where the claim puts the row of module a, of the coded group at p and the
\* first row of the use-case at p: after the header row and every row of what
\* comes before it in the tree
ModuleRowAt(ms, a) ==
    1 + a + Cardinality({q \in CodedPlaces(ms) : q[1] < a})
      + RowsOfPlaces(ms, {r \in UsecasePlaces(ms) : r[1] < a})

GroupRowAt(ms, p) ==
    1 + p[1] + Cardinality({q \in CodedPlaces(ms) : GroupBefore(q, p) \/ q = p})
      + RowsOfPlaces(ms, {r \in UsecasePlaces(ms) : GroupBefore(r, p)})

UsecaseRowAt(ms, p) ==
    2 + p[1]
      + Cardinality({q \in CodedPlaces(ms) : GroupBefore(q, p) \/ q = <<p[1], p[2]>>})
      + RowsOfPlaces(ms, {r \in UsecasePlaces(ms) : UsecaseBefore(r, p)})

\* a row that carries a code and a name only
HeadingRow(code, name) == TableRow(code, name, <<>>, <<>>, <<>>, <<>>)

\* C15: the table generate_word writes has one header row, one row per
\* module, one row per group with a non-empty code and max(1, number of
\* transactions) rows per use-case, in tree order; a use-case without
\* transactions has one row with an empty transaction cell, and only the first
\* row of a use-case carries its code, name, actor, BMT and complexity.
C15_TableRows ==
    document # <<>> =>
        LET table == document[1]
            ms == modules
        IN /\ Len(table) = 1 + Len(ms) + Cardinality(CodedPlaces(ms))
                               + RowsOfPlaces(ms, UsecasePlaces(ms))
           /\ \A a \in 1..Len(ms) :
                  table[ModuleRowAt(ms, a)] = HeadingRow(ms[a].code, ms[a].name)
           /\ \A p \in CodedPlaces(ms) :
                  table[GroupRowAt(ms, p)] = HeadingRow(GroupAt(ms, p).code, GroupAt(ms, p).name)
           /\ \A p \in UsecasePlaces(ms) :
                  LET u == UsecaseAt(ms, p)
                      r == UsecaseRowAt(ms, p)
                  IN /\ table[r] =
                          TableRow(u.code, u.name, u.actor,
                                   IF u.transactions = <<>> THEN <<>> ELSE u.transactions[1],
                                   u.bmt, u.complexity)
                     /\ \A k \in 2..Len(u.transactions) :
                            table[r + k - 1] =
                                TableRow(<<>>, <<>>, <<>>, u.transactions[k], <<>>, <<>>)

\* a document written for a tree with a coded group and a use-case without
\* transactions
C15_Witness ==
    /\ document # <<>>
    /\ CodedPlaces(modules) # {}
    /\ \E p \in UsecasePlaces(modules) : UsecaseAt(modules, p).transactions = <<>>

\* ==================================================== transaction lists
\* every use-case the builder holds: in the flushed modules, in the open
\* module, in the open group and the open use-case itself
UsecasesOfGroupList(groups) ==
    UNION {{groups[b].usecases[c] : c \in 1..Len(groups[b].usecases)} : b \in 1..Len(groups)}

HeldUsecases ==
    UNION {UsecasesOfGroupList(modules[a].groups) : a \in 1..Len(modules)}
    \cup (IF current_module = <<>> THEN {} ELSE UsecasesOfGroupList(current_module[1].groups))
    \cup (IF current_group = <<>> THEN {} ELSE UsecasesOfGroupList(current_group))
    \cup {current_usecase[n] : n \in 1..Len(current_usecase)}

\* the transaction cell of the input row is blank
BlankTransCell(row) == row.trans.t = "nan" \/ Strip(row.trans.s) = <<>>

\* C16: after every processed row and in the returned tree no use-case's
\* transaction list contains an empty string, and a Level3 row whose
\* transaction cell is blank opens a use-case with an empty transaction list.
C16_TransactionLists ==
    /\ [](\A u \in HeldUsecases :
             \A k \in 1..Len(u.transactions) : u.transactions[k] # <<>>)
    /\ [][ (/\ pc = "rows"
            /\ i <= Len(df)
            /\ RowView(df, i).kind = "Level3"
            /\ BlankTransCell(df[i]))
           => (current_usecase' # <<>> /\ current_usecase'[1].transactions = <<>>) ]_vars

\* ======================================================= the module list
\* 1 when the default module is synthesized: a Level2 or Level3 row comes
\* before any Level1 row
DefaultSynthesized(vs) ==
    LET e == BeforeFirstLevel1(vs)
    IN IF RowsOfKind(vs, 1, e, "Level2") \cup RowsOfKind(vs, 1, e, "Level3") # {}
       THEN 1 ELSE 0

\* C17: the returned module list has one entry per Level1 row, in row order,
\* after the default module when one was synthesized, also when several
\* Level1 rows carry the same code and name and have equal contents.
C17_ModulePerLevel1Row ==
    pc = "done" =>
        Bind(Views(df), LAMBDA vs :
           LET level1 == InOrder(RowsOfKind(vs, 1, Len(vs), "Level1"))
               first == DefaultSynthesized(vs)
           IN /\ Len(modules) = first + Len(level1)
              /\ \A n \in 1..Len(level1) :
                     /\ modules[first + n].code = vs[level1[n]].code
                     /\ modules[first + n].name = vs[level1[n]].name)

\* ====================================================== the skipped rows
\* a cell that is blank in the input
BlankCell(cell) == cell.t = "nan" \/ Strip(cell.s) = <<>>

\* C18: a row whose sequence, name and transaction cells are all blank in the
\* input changes nothing in the builder, wherever it occurs: the tree, every
\* transaction list and the module, group and use-case slots stay as they are.
C18_BlankRowChangesNothing ==
    [][ (/\ pc = "rows"
         /\ i <= Len(df)
         /\ BlankCell(df[i].stt)
         /\ BlankCell(df[i].name)
         /\ BlankCell(df[i].trans))
        => UNCHANGED <<modules, current_module, current_group, current_usecase>> ]_vars

\* the sequence cell begins with the marker "#"
Marked(cell) == cell.t = "str" /\ Strip(cell.s) # <<>> /\ Head(Strip(cell.s)) = "#"

\* C19: a row whose sequence cell begins with "#" is skipped before it is
\* classified: the tree and the module, group and use-case slots are
\* unchanged, whatever its name and transaction cells hold.
C19_MarkedRowSkipped ==
    [][ (pc = "rows" /\ i <= Len(df) /\ Marked(df[i].stt))
        => UNCHANGED <<modules, current_module, current_group, current_usecase>> ]_vars

\* a marked row with a name and transaction text has just been passed while a
\* use-case is open
C19_Witness ==
    /\ pc = "rows"
    /\ i > 1
    /\ Marked(df[i - 1].stt)
    /\ ~BlankCell(df[i - 1].name)
    /\ ~BlankCell(df[i - 1].trans)
    /\ current_usecase # <<>>

\* ================================================== name-token recovery
\* the name begins with a bare integer token: digits up to the first blank
BeginsWithInteger(name) == FirstToken(name) # <<>> /\ IsDigitText(FirstToken(name))

\* the name after its first token
AfterFirstToken(name) ==
    Strip(SubSeq(LStrip(name), Len(FirstToken(name)) + 1, Len(LStrip(name))))

\* the row is taken as a continuation row: it opens and closes nothing, at
\* most its transaction text is appended to the open use-case
TakenAsContinuation ==
    /\ UNCHANGED <<modules, current_module, current_group>>
    /\ \/ current_usecase' = current_usecase
       \/ /\ current_usecase # <<>>
          /\ \E line \in {RowTexts(df, i).trans} :
                current_usecase' =
                    <<[current_usecase[1] EXCEPT !.transactions = Append(@, line)]>>

\* C20: the recovery of a use-case number from the name applies to rows with
\* an empty sequence cell only. A row whose sequence text is not empty and has
\* none of the three shapes is a continuation row and opens no use-case,
\* whatever its name; a row with an empty sequence cell whose name begins with
\* a bare integer token opens a use-case with that integer as code and the
\* name without the token.
C20_RecoveryOnlyForEmptySequence ==
    [][ (pc = "rows" /\ i <= Len(df)) =>
          \A x \in {RowTexts(df, i)} :
             /\ (/\ x.stt # <<>>
                 /\ Head(x.stt) # "#"
                 /\ Classify(x.stt) = NoTag)
                => TakenAsContinuation
             /\ (x.stt = <<>> /\ BeginsWithInteger(x.name))
                => /\ current_usecase' # <<>>
                   /\ current_usecase'[1].code = FirstToken(x.name)
                   /\ current_usecase'[1].name = AfterFirstToken(x.name) ]_vars

\* ============================================================ the flushes
\* the last element of a list
Last(list) == list[Len(list)]

\* the step flushes all three slots: a Level1 row, or the end of the rows
FlushesAll == pc = "rows" /\ (i > Len(df) \/ RowView(df, i).kind = "Level1")

\* row k is a continuation row: blank sequence and name cells, transaction text
ContinuationRow(d, k) ==
    BlankCell(d[k].stt) /\ BlankCell(d[k].name) /\ ~BlankCell(d[k].trans)

\* C21: on a Level1 row and at the end of the rows the open use-case is
\* attached to the open group, the group to the open module and the module to
\* the output list, so the last use-case read is the last use-case of the last
\* group of the module that was open, and that module is appended to the
\* list; after a Level1 row no group and no use-case is open, and a
\* continuation row directly after a Level1 or Level2 row is dropped.
C21_LeafToRootFlush ==
    [][ /\ (FlushesAll /\ current_usecase # <<>>)
            => /\ Len(modules') = Len(modules) + 1
               /\ current_module # <<>>
               /\ Last(modules').code = current_module[1].code
               /\ Last(modules').name = current_module[1].name
               /\ Last(modules').groups # <<>>
               /\ Last(Last(modules').groups).usecases # <<>>
               /\ Last(Last(Last(modules').groups).usecases) = current_usecase[1]
               /\ current_group # <<>>
                     => /\ Last(Last(modules').groups).code = current_group[1].code
                        /\ Last(Last(modules').groups).name = current_group[1].name
        /\ (pc = "rows" /\ i <= Len(df) /\ RowView(df, i).kind = "Level1")
            => (current_group' = <<>> /\ current_usecase' = <<>>)
        /\ (/\ pc = "rows" /\ i <= Len(df) /\ i > 1
            /\ RowView(df, i - 1).kind \in {"Level1", "Level2"}
            /\ ContinuationRow(df, i))
            => UNCHANGED <<modules, current_module, current_group, current_usecase>> ]_vars

\* ============================================================== the slots
\* C22: after every processed row, if a use-case is open then a group is
\* open, and if a group is open then a module is open; so flush_usecase never
\* finds the group missing and flush_group never finds the module missing, and
\* no flushed node is discarded for lack of a parent.
C22_SlotInvariant ==
    /\ current_usecase # <<>> => current_group # <<>>
    /\ current_group # <<>> => current_module # <<>>

\* a use-case, its group and its module are open after a row
C22_Witness ==
    /\ pc = "rows"
    /\ i > 1
    /\ current_usecase # <<>>
    /\ current_group # <<>>
    /\ current_module # <<>>

\* ======================================================= the tree's shape
\* the anonymous groups of a module
AnonymousGroups(m) == {k \in 1..Len(m.groups) : m.groups[k].code = None}

\* the groups of a tree that carry a code
RECURSIVE CodedGroupsOfTree(_)
CodedGroupsOfTree(tree) ==
    IF tree = <<>> THEN 0
    ELSE Cardinality(CodedGroups(Head(tree))) + CodedGroupsOfTree(Tail(tree))

\* C23: in the tree read_excel returns, a module has at most one anonymous
\* group, which is then its first group; no group appears twice in the group
\* list of a module; and no group or use-case is attached to two parents: the
\* tree holds no more coded groups than Level2 rows were read and no more
\* use-cases than Level3 rows were read.
C23_TreeShape ==
    pc = "done" =>
        Bind(Views(df), LAMBDA vs :
           /\ \A a \in 1..Len(modules) :
                  /\ AnonymousGroups(modules[a]) \subseteq {1}
                  /\ \A j, k \in 1..Len(modules[a].groups) :
                         j # k => modules[a].groups[j] # modules[a].groups[k]
           /\ CodedGroupsOfTree(modules) <= Cardinality(RowsOfKind(vs, 1, Len(vs), "Level2"))
           /\ UsecasesOfTree(modules) <= Cardinality(RowsOfKind(vs, 1, Len(vs), "Level3")))

\* a returned module whose anonymous group is followed by a coded group, each
\* with a use-case
C23_Witness ==
    /\ pc = "done"
    /\ \E a \in 1..Len(modules) :
          /\ Len(modules[a].groups) >= 2
          /\ modules[a].groups[1].code = None
          /\ modules[a].groups[1].usecases # <<>>
          /\ modules[a].groups[2].code # None
          /\ modules[a].groups[2].usecases # <<>>

\* ================================================= the columns resolved
\* the columns bound to the fields that got resolved
BoundFields(c) == {f \in DOMAIN c : c[f] # 0}

\* C24: for every header row the fields that get resolved are bound to
\* pairwise distinct columns; in particular the sequence field and the name
\* field are never bound to the same column, and the sequence column is never
\* forward-filled.
C24_ResolutionInjective ==
    pc = "resolved" =>
        /\ \A f, g \in BoundFields(cols[1]) : f # g => cols[1][f] # cols[1][g]
        /\ cols[1].stt_col # cols[1].name_col
        /\ cols[1].stt_col \notin ForwardFilled(cols[1])
============================================================================
